---- MODULE Spec2Model ----
(***************************************************************************)
(* Model of netlify/functions/get-reformulation.js: the module-level       *)
(* configuration constants and the asynchronous request handler            *)
(* exports.handler.  One action is one synchronous segment of the handler  *)
(* (from its entry or the settling of an awaited promise up to the next     *)
(* await or return).  Strings built by template literals and by            *)
(* JSON.stringify are sequences of string pieces, in order.                *)
(***************************************************************************)
EXTENDS Integers, Sequences, FiniteSets, TLC

\* Number of invocations of the handler followed in one behaviour.
MaxInvocations == 2

(***************************************************************************)
(* JavaScript values                                                       *)
(***************************************************************************)
\* The value `undefined` (an unset environment variable, a missing property).
Undefined == "<undefined>"

\* !v for the string-or-undefined values of the handler.
Falsy(v) == v \in {Undefined, ""}

\* ${v} inside a template literal.
Interpolate(v) == IF v = Undefined THEN "undefined" ELSE v

Range(s) == {s[i] : i \in DOMAIN s}

(***************************************************************************)
(* Inputs                                                                  *)
(***************************************************************************)
KeyValues == {Undefined, "key-A", "key-B"}
SecretValues == {Undefined, "secret-A", "secret-B"}
Environments == [GEMINI_API_KEY : KeyValues, RECAPTCHA_SECRET_KEY : SecretValues]

Methods == {"POST", "GET", "post"}

\* event.body: text that is not JSON, the JSON text null, a JSON scalar, or a
\* JSON object whose three properties are each missing, empty or set.
ObjectBodies ==
    [syntax : {"object"},
     inputText : {Undefined, "", "Hello world"},
     style : {Undefined, "", "pirate"},
     token : {Undefined, "", "abc"}]
OtherBodies ==
    [syntax : {"malformed", "null", "scalar"},
     inputText : {Undefined}, style : {Undefined}, token : {Undefined}]
Bodies == ObjectBodies \cup OtherBodies

\* reCAPTCHA scores in tenths (5 is 0.5).
Scores == {0, 4, 5, 6, 10}
\* The parsed siteverify answer: JSON null, or an object with success and,
\* when hasScore, a score.
RecaptchaDatas ==
    [isNull : {FALSE}, success : BOOLEAN, hasScore : {TRUE}, score : Scores]
    \cup [isNull : {FALSE}, success : BOOLEAN, hasScore : {FALSE}, score : {0}]
    \cup [isNull : {TRUE}, success : {FALSE}, hasScore : {FALSE}, score : {0}]
NoData == [isNull |-> TRUE, success |-> FALSE, hasScore |-> FALSE, score |-> 0]

\* Status line of the generation service's response.
UpstreamResponses ==
    {[ok |-> TRUE, status |-> 200, statusText |-> "OK"],
     [ok |-> FALSE, status |-> 429, statusText |-> "Too Many Requests"],
     [ok |-> FALSE, status |-> 500, statusText |-> "Internal Server Error"]}
NoUpstream == [ok |-> FALSE, status |-> 0, statusText |-> ""]
ErrorBodies == {"quota exceeded for project 42", "backend stack trace"}

\* Parsed generation responses.
Part(hasText, text) == [hasText |-> hasText, text |-> text]
Candidate(isNull, hasContent, hasParts, parts) ==
    [isNull |-> isNull, hasContent |-> hasContent, hasParts |-> hasParts,
     parts |-> parts]
Result(isNull, hasCandidates, candidates) ==
    [isNull |-> isNull, hasCandidates |-> hasCandidates,
     candidates |-> candidates]
TextCandidate(text) == Candidate(FALSE, TRUE, TRUE, <<Part(TRUE, text)>>)
GenResults ==
    {Result(TRUE, FALSE, <<>>),
     Result(FALSE, FALSE, <<>>),
     Result(FALSE, TRUE, <<>>),
     Result(FALSE, TRUE, <<Candidate(TRUE, FALSE, FALSE, <<>>)>>),
     Result(FALSE, TRUE, <<Candidate(FALSE, FALSE, FALSE, <<>>)>>),
     Result(FALSE, TRUE, <<Candidate(FALSE, TRUE, FALSE, <<>>)>>),
     Result(FALSE, TRUE, <<Candidate(FALSE, TRUE, TRUE, <<>>)>>),
     Result(FALSE, TRUE, <<Candidate(FALSE, TRUE, TRUE, <<Part(FALSE, Undefined)>>)>>),
     Result(FALSE, TRUE, <<TextCandidate("")>>),
     Result(FALSE, TRUE, <<TextCandidate("Ahoy, world!")>>),
     Result(FALSE, TRUE, <<TextCandidate("Ahoy, world!"), TextCandidate("Arr")>>),
     Result(FALSE, TRUE, <<Candidate(FALSE, FALSE, FALSE, <<>>), TextCandidate("Arr")>>)}
NoResult == Result(TRUE, FALSE, <<>>)

\* Messages of rejected promises.
NetworkErrors == {"fetch failed"}
BodyErrors == {"Unexpected end of JSON input"}

(***************************************************************************)
(* State                                                                   *)
(***************************************************************************)
VARIABLES
    env,              \* process.env
    API_KEY,          \* module constants, set when the module is loaded
    RECAPTCHA_SECRET,
    API_URL,
    pc,               \* where the current invocation stands
    event,            \* its argument
    inputText,        \* its locals
    style,
    token,
    recaptchaData,
    response,
    errorBody,
    result,
    returned,         \* the value the handler returned
    calls,            \* fetch calls issued by the current invocation, in order
    outstanding,      \* services whose answer the invocation is waiting for
    hung,             \* the awaited promise never settles
    error,            \* message of the error caught at line 102
    log,              \* console output of the current invocation
    parsed,           \* JSON.parse(event.body) was evaluated
    invocations,      \* handler calls so far
    responses,        \* handler returns so far
    envAtLoad,        \* history: process.env when the module was loaded
    envAtInvoke       \* history: process.env when the invocation began

vars == <<env, API_KEY, RECAPTCHA_SECRET, API_URL, pc, event, inputText,
          style, token, recaptchaData, response, errorBody, result, returned,
          calls, outstanding, hung, error, log, parsed, invocations,
          responses, envAtLoad, envAtInvoke>>

Awaiting == {"awaitRecaptchaFetch", "awaitRecaptchaJson", "awaitGenFetch",
             "awaitErrorText", "awaitGenJson"}

NoError == ""
NoEvent == [httpMethod |-> "", body |-> [syntax |-> "malformed",
            inputText |-> Undefined, style |-> Undefined, token |-> Undefined]]
Response(statusCode, body) == [statusCode |-> statusCode, body |-> body]
NoResponse == Response(0, <<>>)
LogEntry(level, message, detail) ==
    [level |-> level, message |-> message, detail |-> detail]

(***************************************************************************)
(* Module-level constants (lines 8-13)                                     *)
(***************************************************************************)
RECAPTCHA_VERIFY_URL == <<"https://www.google.com/recaptcha/api/siteverify">>

ApiUrl(key) ==
    <<"https://generativelanguage.googleapis.com/v1beta/models/gemini-2.5-flash-preview-09-2025:generateContent?key=",
      Interpolate(key)>>

(***************************************************************************)
(* Pieces of the handler                                                   *)
(***************************************************************************)
MethodAllowed_AlsoGet(httpMethod) == httpMethod \in {"POST", "GET"}

\* line 19
MethodAllowed(httpMethod) == httpMethod = "POST"

\* JSON.parse(event.body) destructured into { inputText, style, token }.
ParseBody(body) ==
    CASE body.syntax = "malformed" ->
            [threw |-> TRUE, message |-> "Unexpected token in JSON",
             inputText |-> Undefined, style |-> Undefined, token |-> Undefined]
      [] body.syntax = "null" ->
            [threw |-> TRUE,
             message |-> "Cannot destructure property 'inputText' of 'JSON.parse(...)' as it is null.",
             inputText |-> Undefined, style |-> Undefined, token |-> Undefined]
      [] body.syntax = "scalar" ->
            [threw |-> FALSE, message |-> NoError,
             inputText |-> Undefined, style |-> Undefined, token |-> Undefined]
      [] OTHER ->
            [threw |-> FALSE, message |-> NoError,
             inputText |-> body.inputText, style |-> body.style,
             token |-> body.token]

\* line 27
MissingFields(p) == Falsy(p.inputText) \/ Falsy(p.style) \/ Falsy(p.token)

ConfigMissing_KeyOnly == Falsy(API_KEY)

\* line 32
ConfigMissing == Falsy(API_KEY) \/ Falsy(RECAPTCHA_SECRET)

RecaptchaRequestBody_ReadsEnv(tok) ==
    <<"secret=", Interpolate(env.RECAPTCHA_SECRET_KEY), "&response=", Interpolate(tok)>>

\* line 42
RecaptchaRequestBody(tok) ==
    <<"secret=", Interpolate(RECAPTCHA_SECRET), "&response=", Interpolate(tok)>>

\* lines 38-43
RecaptchaCall(tok) ==
    [service |-> "recaptcha", url |-> RECAPTCHA_VERIFY_URL,
     body |-> RecaptchaRequestBody(tok)]

\* recaptchaData.score < 0.5, scores in tenths; undefined < 0.5 is false.
ScoreThreshold == 5
ScoreBelowThreshold(data) == data.hasScore /\ data.score < ScoreThreshold

\* line 49
Rejected(data) == ~data.success \/ ScoreBelowThreshold(data)

\* lines 55-60
SystemPrompt(st) ==
    <<"You are an expert text reformulator. [...] 3.  You MUST rewrite the text in the following style: **",
      Interpolate(st),
      "**.\n4.  Respond ONLY with the rewritten text. [...]">>

\* lines 62-72 under JSON.stringify (line 78)
Payload(text, st) ==
    <<"{\"contents\":[{\"parts\":[{\"text\":\"", text,
      "\"}]}],\"systemInstruction\":{\"parts\":[{\"text\":\"">>
    \o SystemPrompt(st)
    \o <<"\"}]},\"generationConfig\":{\"temperature\":0.8,\"topP\":0.9,\"topK\":40}}">>

\* lines 75-79
GenerationCall(text, st) ==
    [service |-> "gemini", url |-> API_URL, body |-> Payload(text, st)]

\* JSON.stringify({ name: value }) for a string value.
JSONStringify(name, value) == <<"{\"", name, "\":\"", value, "\"}">>

UpstreamErrorResponse_LeaksBody(resp, raw) ==
    Response(resp.status, <<"Google AI Error: ", raw>>)

\* line 84
UpstreamErrorResponse(resp, raw) ==
    Response(resp.status, <<"Google AI Error: ", resp.statusText>>)

\* result.candidates[0].content?.parts?.[0]?.text for a first candidate that
\* is an object.
ChainText(c) ==
    IF ~c.hasContent \/ ~c.hasParts THEN Undefined
    ELSE IF Len(c.parts) = 0 THEN Undefined
    ELSE IF ~c.parts[1].hasText THEN Undefined
    ELSE c.parts[1].text

\* The condition of line 89: "throw" when evaluating it raises a TypeError,
\* "invalid" when it is true, "valid" when it is false.
ShapeCheck(res) ==
    IF res.isNull THEN "throw"
    ELSE IF ~res.hasCandidates THEN "invalid"
    ELSE IF Len(res.candidates) = 0 THEN "throw"
    ELSE IF res.candidates[1].isNull THEN "throw"
    ELSE IF Falsy(ChainText(res.candidates[1])) THEN "invalid"
    ELSE "valid"

\* The message of the TypeError line 89 raises.
ShapeErrorMessage(res) ==
    IF res.isNull THEN "Cannot read properties of null (reading 'candidates')"
    ELSE IF Len(res.candidates) = 0
         THEN "Cannot read properties of undefined (reading 'content')"
    ELSE "Cannot read properties of null (reading 'content')"

SuccessResponse_Status201(text) ==
    Response(201, JSONStringify("reformulatedText", text))

\* lines 97-100
SuccessResponse(text) == Response(200, JSONStringify("reformulatedText", text))

CatchResponse_PlainText(message) == Response(500, <<message>>)

\* line 104
CatchResponse(message) == Response(500, JSONStringify("error", message))

(***************************************************************************)
(* The handler, segment by segment.  A segment takes the invocation's      *)
(* state (its position, locals, issued calls, console output and returned   *)
(* value) and gives the state at the next await or at the return.           *)
(***************************************************************************)
Fresh ==
    [pc |-> "idle", inputText |-> Undefined, style |-> Undefined,
     token |-> Undefined, recaptchaData |-> NoData, response |-> NoUpstream,
     errorBody |-> "", result |-> NoResult, returned |-> NoResponse,
     calls |-> <<>>, outstanding |-> {}, error |-> NoError, log |-> <<>>,
     parsed |-> FALSE]

Current ==
    [pc |-> pc, inputText |-> inputText, style |-> style, token |-> token,
     recaptchaData |-> recaptchaData, response |-> response,
     errorBody |-> errorBody, result |-> result, returned |-> returned,
     calls |-> calls, outstanding |-> outstanding, error |-> error,
     log |-> log, parsed |-> parsed]

\* return r
Return(o, r) == [o EXCEPT !.pc = "done", !.returned = r, !.outstanding = {}]

\* lines 102-105
Caught(o, message) ==
    Return([o EXCEPT !.error = message,
                     !.log = Append(@, LogEntry("error", "Serverless function error:", message))],
           CatchResponse(message))

IssueVerification_WithGeneration(o) ==
    [o EXCEPT !.calls = @ \o <<RecaptchaCall(o.token),
                               GenerationCall(o.inputText, o.style)>>,
              !.outstanding = {"recaptcha", "gemini"},
              !.pc = "awaitRecaptchaFetch"]

\* lines 38-43: the fetch is issued and awaited
IssueVerification(o) ==
    [o EXCEPT !.calls = Append(@, RecaptchaCall(o.token)),
              !.outstanding = {"recaptcha"},
              !.pc = "awaitRecaptchaFetch"]

\* lines 75-79: the fetch is issued and awaited
IssueGeneration(o) ==
    [o EXCEPT !.calls = Append(@, GenerationCall(o.inputText, o.style)),
              !.outstanding = {"gemini"},
              !.pc = "awaitGenFetch"]

\* lines 16-43
Entry(ev) ==
    IF ~MethodAllowed(ev.httpMethod)
    THEN Return(Fresh, Response(405, <<"Method Not Allowed">>))
    ELSE LET p == ParseBody(ev.body)
             o == [Fresh EXCEPT !.parsed = TRUE]
             bound == [o EXCEPT !.inputText = p.inputText, !.style = p.style,
                                !.token = p.token]
         IN  IF p.threw THEN Caught(o, p.message)
             ELSE IF MissingFields(p)
             THEN Return(bound, Response(400, <<"Missing inputText, style, or token">>))
             ELSE IF ConfigMissing
             THEN Return([bound EXCEPT !.log = Append(@, LogEntry("error",
                              "Server configuration error: Missing API_KEY or RECAPTCHA_SECRET", ""))],
                         Response(500, <<"Server configuration error. Please contact the administrator.">>))
             ELSE IssueVerification(bound)

\* lines 45-79, from the parsed verification answer on
AfterVerification(o, data) ==
    LET got == [o EXCEPT !.recaptchaData = data, !.outstanding = {}]
    IN  IF data.isNull
        THEN Caught(got, "Cannot read properties of null (reading 'success')")
        ELSE IF Rejected(data)
        THEN Return([got EXCEPT !.log = Append(@, LogEntry("warn",
                         "reCAPTCHA verification failed. Likely a bot.", "recaptchaData"))],
                    Response(403, <<"Forbidden. Bot-like activity detected.">>))
        ELSE IssueGeneration(got)

\* lines 81-87, from the generation service's status line on
AfterGenerationStatus(o, r) ==
    [o EXCEPT !.response = r,
              !.pc = IF r.ok THEN "awaitGenJson" ELSE "awaitErrorText"]

\* lines 82-84, from the upstream error body on
AfterErrorText(o, raw) ==
    Return([o EXCEPT !.errorBody = raw,
                     !.log = Append(@, LogEntry("error", "Google AI API Error:", raw))],
           UpstreamErrorResponse(o.response, raw))

\* lines 87-100, from the parsed generation answer on
AfterGeneration(o, res) ==
    LET got == [o EXCEPT !.result = res, !.outstanding = {}]
        shape == ShapeCheck(res)
    IN  IF shape = "throw" THEN Caught(got, ShapeErrorMessage(res))
        ELSE IF shape = "invalid"
        THEN Return([got EXCEPT !.log = Append(@, LogEntry("error",
                         "Invalid API response:", "result"))],
                    Response(500, <<"Invalid response from Google AI.">>))
        ELSE Return(got, SuccessResponse(res.candidates[1].parts[1].text))

(***************************************************************************)
(* Actions                                                                 *)
(***************************************************************************)
Loaded(e) ==
    /\ API_KEY = e.GEMINI_API_KEY
    /\ RECAPTCHA_SECRET = e.RECAPTCHA_SECRET_KEY
    /\ API_URL = ApiUrl(e.GEMINI_API_KEY)

Init ==
    /\ env \in Environments
    /\ Loaded(env)
    /\ envAtLoad = env
    /\ envAtInvoke = env
    /\ event = NoEvent
    /\ pc = Fresh.pc
    /\ inputText = Fresh.inputText
    /\ style = Fresh.style
    /\ token = Fresh.token
    /\ recaptchaData = Fresh.recaptchaData
    /\ response = Fresh.response
    /\ errorBody = Fresh.errorBody
    /\ result = Fresh.result
    /\ returned = Fresh.returned
    /\ calls = Fresh.calls
    /\ outstanding = Fresh.outstanding
    /\ error = Fresh.error
    /\ log = Fresh.log
    /\ parsed = Fresh.parsed
    /\ hung = FALSE
    /\ invocations = 0
    /\ responses = 0

\* The invocation moves to state o; a return is counted.
Becomes(o) ==
    /\ pc' = o.pc
    /\ inputText' = o.inputText
    /\ style' = o.style
    /\ token' = o.token
    /\ recaptchaData' = o.recaptchaData
    /\ response' = o.response
    /\ errorBody' = o.errorBody
    /\ result' = o.result
    /\ returned' = o.returned
    /\ calls' = o.calls
    /\ outstanding' = o.outstanding
    /\ error' = o.error
    /\ log' = o.log
    /\ parsed' = o.parsed
    /\ responses' = IF o.pc = "done" THEN responses + 1 ELSE responses

Module == <<env, API_KEY, RECAPTCHA_SECRET, API_URL, envAtLoad>>

\* The continuation after an await runs with the rest of the state untouched.
Resumes(at, o) ==
    /\ pc = at
    /\ ~hung
    /\ Becomes(o)
    /\ UNCHANGED <<Module, event, hung, invocations, envAtInvoke>>

\* The module is evaluated in a new function instance (lines 8-13).
LoadModule ==
    /\ pc = "idle"
    /\ env # envAtLoad
    /\ API_KEY' = env.GEMINI_API_KEY
    /\ RECAPTCHA_SECRET' = env.RECAPTCHA_SECRET_KEY
    /\ API_URL' = ApiUrl(env.GEMINI_API_KEY)
    /\ envAtLoad' = env
    /\ Becomes(Fresh)
    /\ UNCHANGED <<env, event, hung, invocations, envAtInvoke>>

\* The deployment's environment variables are changed.
SetEnv(e) ==
    /\ e # env
    /\ env' = e
    /\ UNCHANGED <<API_KEY, RECAPTCHA_SECRET, API_URL, envAtLoad, pc, event,
                   inputText, style, token, recaptchaData, response, errorBody,
                   result, returned, calls, outstanding, hung, error, log,
                   parsed, invocations, responses, envAtInvoke>>

\* exports.handler(event) is called: lines 16-43.
Invoke(httpMethod, body) ==
    /\ pc = "idle"
    /\ invocations < MaxInvocations
    /\ invocations' = invocations + 1
    /\ event' = [httpMethod |-> httpMethod, body |-> body]
    /\ envAtInvoke' = env
    /\ hung' = FALSE
    /\ Becomes(Entry([httpMethod |-> httpMethod, body |-> body]))
    /\ UNCHANGED Module

\* The platform takes the returned value; the invocation's frame is gone.
Delivered ==
    /\ pc = "done"
    /\ event' = NoEvent
    /\ Becomes(Fresh)
    /\ UNCHANGED <<Module, hung, invocations, envAtInvoke>>

\* line 38 resolves; line 45 starts reading the body.
RecaptchaFetchResolves ==
    Resumes("awaitRecaptchaFetch", [Current EXCEPT !.pc = "awaitRecaptchaJson"])

RecaptchaFetchRejects(message) ==
    Resumes("awaitRecaptchaFetch", Caught(Current, message))

\* line 45 resolves: lines 45-79.
RecaptchaJsonResolves(data) ==
    Resumes("awaitRecaptchaJson", AfterVerification(Current, data))

RecaptchaJsonRejects(message) ==
    Resumes("awaitRecaptchaJson", Caught(Current, message))

\* line 75 resolves: lines 81-87.
GenFetchResolves(r) ==
    Resumes("awaitGenFetch", AfterGenerationStatus(Current, r))

GenFetchRejects(message) ==
    Resumes("awaitGenFetch", Caught(Current, message))

\* line 82 resolves: lines 82-84.
ErrorTextResolves(raw) ==
    Resumes("awaitErrorText", AfterErrorText(Current, raw))

ErrorTextRejects(message) ==
    Resumes("awaitErrorText", Caught(Current, message))

\* line 87 resolves: lines 87-100.
GenJsonResolves(res) ==
    Resumes("awaitGenJson", AfterGeneration(Current, res))

GenJsonRejects(message) ==
    Resumes("awaitGenJson", Caught(Current, message))

\* The awaited promise never settles: the code sets no timeout on either fetch.
NeverSettles ==
    /\ pc \in Awaiting
    /\ ~hung
    /\ hung' = TRUE
    /\ UNCHANGED <<Module, pc, event, inputText, style, token, recaptchaData,
                   response, errorBody, result, returned, calls, outstanding,
                   error, log, parsed, invocations, responses, envAtInvoke>>

Settles ==
    \/ RecaptchaFetchResolves
    \/ \E m \in NetworkErrors : RecaptchaFetchRejects(m)
    \/ \E d \in RecaptchaDatas : RecaptchaJsonResolves(d)
    \/ \E m \in BodyErrors : RecaptchaJsonRejects(m)
    \/ \E r \in UpstreamResponses : GenFetchResolves(r)
    \/ \E m \in NetworkErrors : GenFetchRejects(m)
    \/ \E raw \in ErrorBodies : ErrorTextResolves(raw)
    \/ \E m \in NetworkErrors : ErrorTextRejects(m)
    \/ \E res \in GenResults : GenJsonResolves(res)
    \/ \E m \in BodyErrors : GenJsonRejects(m)

Next ==
    \/ LoadModule
    \/ \E e \in Environments : SetEnv(e)
    \/ \E m \in Methods, b \in Bodies : Invoke(m, b)
    \/ Delivered
    \/ RecaptchaFetchResolves
    \/ \E m \in NetworkErrors : RecaptchaFetchRejects(m)
    \/ \E d \in RecaptchaDatas : RecaptchaJsonResolves(d)
    \/ \E m \in BodyErrors : RecaptchaJsonRejects(m)
    \/ \E r \in UpstreamResponses : GenFetchResolves(r)
    \/ \E m \in NetworkErrors : GenFetchRejects(m)
    \/ \E raw \in ErrorBodies : ErrorTextResolves(raw)
    \/ \E m \in NetworkErrors : ErrorTextRejects(m)
    \/ \E res \in GenResults : GenJsonResolves(res)
    \/ \E m \in BodyErrors : GenJsonRejects(m)
    \/ NeverSettles

Spec == Init /\ [][Next]_vars

\* A promise that is not left pending settles, and the handler then runs on.
FairSpec == Init /\ [][Next]_vars /\ WF_vars(Settles)

(***************************************************************************)
(* Properties                                                              *)
(***************************************************************************)
IsPost == event.httpMethod = "POST"
InvalidPayload ==
    \/ event.body.syntax # "object"
    \/ Falsy(event.body.inputText)
    \/ Falsy(event.body.style)
    \/ Falsy(event.body.token)
GenerationIssued == \E i \in DOMAIN calls : calls[i].service = "gemini"
ErrorJson == <<"{\"", "error", "\":\"", error, "\"}">>

\* C1: once the verification answer is there, the generation call is issued
\* exactly when success is true and the score is above 0.5; in every other
\* case, a score of exactly 0.5 included, the handler returns 403 and issues
\* no generation call.
C1_ProceedsIffScoreAboveHalf ==
    ~recaptchaData.isNull =>
        LET accepted == /\ recaptchaData.success
                        /\ recaptchaData.hasScore
                        /\ recaptchaData.score > ScoreThreshold
        IN  /\ GenerationIssued <=> accepted
            /\ ~accepted => pc = "done" /\ returned.statusCode = 403

\* C2: a POST whose body is not JSON, or lacks (or has empty) inputText,
\* style or token, is answered 400 and no external call is issued.
C2_InvalidPayloadIs400 ==
    (pc # "idle" /\ IsPost /\ InvalidPayload) =>
        /\ pc = "done"
        /\ returned.statusCode = 400
        /\ calls = <<>>

\* C3 as stated: a POST with the API key or the verification secret absent is
\* answered 500 with no external call, whatever the payload.
C3_MissingSecretIs500 ==
    (pc # "idle" /\ IsPost /\ (Falsy(API_KEY) \/ Falsy(RECAPTCHA_SECRET))) =>
        /\ pc = "done"
        /\ returned.statusCode = 500
        /\ calls = <<>>

\* C3 amended: a POST with the API key or the verification secret absent
\* issues no external call; with a payload that has all three fields it is
\* answered 500 "Server configuration error", and with a payload that parses
\* but lacks a field it is answered 400, the payload check coming first.
C3_MissingSecretAfterPayloadCheck ==
    (pc # "idle" /\ IsPost /\ (Falsy(API_KEY) \/ Falsy(RECAPTCHA_SECRET))) =>
        /\ pc = "done"
        /\ calls = <<>>
        /\ ~InvalidPayload =>
              returned = [statusCode |-> 500,
                          body |-> <<"Server configuration error. Please contact the administrator.">>]
        /\ (InvalidPayload /\ event.body.syntax \in {"object", "scalar"}) =>
              returned.statusCode = 400

C3_Witness ==
    /\ pc = "done"
    /\ IsPost
    /\ ~InvalidPayload
    /\ ~Falsy(API_KEY)
    /\ Falsy(RECAPTCHA_SECRET)
    /\ returned.statusCode = 500
    /\ calls = <<>>

\* C4: a generation answer that is OK but lacks a first candidate, or whose
\* first candidate lacks content, a first part or a non-empty text, is
\* answered 500 with the body "Invalid response from Google AI.".
C4_BadShapeIsInvalidResponse ==
    (/\ pc = "done"
     /\ response.ok
     /\ ~result.isNull
     /\ \/ ~result.hasCandidates
        \/ Len(result.candidates) = 0
        \/ result.candidates[1].isNull
        \/ ~result.candidates[1].hasContent
        \/ ~result.candidates[1].hasParts
        \/ Len(result.candidates[1].parts) = 0
        \/ ~result.candidates[1].parts[1].hasText
        \/ result.candidates[1].parts[1].text = "") =>
        returned = [statusCode |-> 500,
                    body |-> <<"Invalid response from Google AI.">>]

SecretsUsedAreFrom(e) ==
    /\ \A i \in DOMAIN calls :
          /\ calls[i].service = "recaptcha" =>
                calls[i].body[2] = Interpolate(e.RECAPTCHA_SECRET_KEY)
          /\ calls[i].service = "gemini" =>
                calls[i].url[2] = Interpolate(e.GEMINI_API_KEY)
    /\ (pc # "idle" /\ IsPost /\ ~InvalidPayload) =>
          (calls = <<>> <=> (Falsy(e.GEMINI_API_KEY) \/ Falsy(e.RECAPTCHA_SECRET_KEY)))

\* C5 as stated: the secrets an invocation checks and sends are those of the
\* environment at the time of that invocation.
C5_SecretsReadPerInvocation == SecretsUsedAreFrom(envAtInvoke)

\* C5 amended: the secrets an invocation checks and sends are those the
\* environment held when the module was loaded; they are kept for every
\* invocation of that module instance, and a later change of the environment
\* is not seen until the module is loaded again.
C5_SecretsReadAtLoad == SecretsUsedAreFrom(envAtLoad)

C5_Witness ==
    /\ invocations = 2
    /\ Len(calls) = 2
    /\ envAtInvoke.RECAPTCHA_SECRET_KEY # envAtLoad.RECAPTCHA_SECRET_KEY
    /\ envAtInvoke.GEMINI_API_KEY # envAtLoad.GEMINI_API_KEY
    /\ calls[1].body[2] = envAtLoad.RECAPTCHA_SECRET_KEY
    /\ calls[2].url[2] = envAtLoad.GEMINI_API_KEY

InFlight == IF pc \in Awaiting THEN 1 ELSE 0

\* C6 as stated: every invocation eventually returns, and an outbound call
\* that fails or hangs ends the invocation with the catch-all 500 answer.
C6_AlwaysReturnsEvenWhenHung ==
    /\ (pc \in Awaiting) ~> (pc = "done")
    /\ hung ~> (pc = "done" /\ returned.statusCode = 500)
    /\ [](error # NoError => (pc = "done" /\ returned.statusCode = 500))

\* C6 amended: an invocation returns at most one response, and exactly one
\* once every promise it awaits has settled; a rejected await or any other
\* error thrown after the method check ends it with status 500 and the JSON
\* body {"error": message}, with no external call after the failure; an
\* outbound call that never settles (the code sets no timeout) leaves the
\* invocation suspended without a response.
C6_ReturnsOnceUnlessHung ==
    /\ [](responses + InFlight = invocations)
    /\ [](pc = "done" <=> returned # NoResponse)
    /\ [](error # NoError =>
            /\ pc = "done"
            /\ outstanding = {}
            /\ returned = [statusCode |-> 500, body |-> ErrorJson])
    /\ [][error # NoError => Len(calls') <= Len(calls)]_vars
    /\ [](hung => pc \in Awaiting /\ returned = NoResponse)
    /\ [][hung => hung' /\ pc' = pc]_vars
    /\ (pc \in Awaiting) ~> (pc = "done" \/ hung)

C6_Witness ==
    /\ pc = "done"
    /\ error = "fetch failed"
    /\ Len(calls) = 2
    /\ response = NoUpstream
    /\ returned.statusCode = 500
    /\ responses = invocations

\* C7: a request whose method is not POST is answered exactly 405, its body
\* is not parsed and no external call is issued, whatever the body and the
\* secrets.
C7_NonPostIs405 ==
    (pc # "idle" /\ ~IsPost) =>
        /\ pc = "done"
        /\ returned.statusCode = 405
        /\ ~parsed
        /\ calls = <<>>
        /\ outstanding = {}

C7_Witness ==
    /\ pc = "done"
    /\ event.httpMethod = "GET"
    /\ ~InvalidPayload
    /\ ~Falsy(API_KEY)
    /\ ~Falsy(RECAPTCHA_SECRET)
    /\ returned.statusCode = 405

UpstreamFailed == pc = "done" /\ response # NoUpstream /\ ~response.ok

\* C8 as stated: after a non-OK answer of the generation service the handler
\* returns the upstream status, and the raw upstream error body is no part of
\* the response.
C8_NonOkRelaysUpstreamStatus ==
    UpstreamFailed =>
        /\ returned.statusCode = response.status
        /\ \A raw \in ErrorBodies : raw \notin Range(returned.body)

\* C8 amended: after a non-OK answer of the generation service whose error
\* body the handler could read, the handler returns the upstream status with
\* the body "Google AI Error: " followed by the upstream status text; when
\* reading the error body fails, it returns the catch-all 500; in both cases
\* the raw upstream error body is no part of the response.
C8_NonOkRelaysStatusOnceBodyRead ==
    UpstreamFailed =>
        /\ error = NoError =>
              returned = [statusCode |-> response.status,
                          body |-> <<"Google AI Error: ", response.statusText>>]
        /\ error # NoError =>
              returned = [statusCode |-> 500, body |-> ErrorJson]
        /\ \A raw \in ErrorBodies : raw \notin Range(returned.body)

C8_Witness ==
    /\ UpstreamFailed
    /\ response.status = 429
    /\ errorBody = "backend stack trace"
    /\ returned.statusCode = 429

HasTextField ==
    /\ pc = "done"
    /\ response.ok
    /\ ~result.isNull
    /\ result.hasCandidates
    /\ Len(result.candidates) > 0
    /\ ~result.candidates[1].isNull
    /\ result.candidates[1].hasContent
    /\ result.candidates[1].hasParts
    /\ Len(result.candidates[1].parts) > 0
    /\ result.candidates[1].parts[1].hasText
ReformulatedJson(text) == <<"{\"", "reformulatedText", "\":\"", text, "\"}">>

\* C9 as stated: an OK generation answer whose first candidate's first part
\* has a text field is answered 200 with the body {"reformulatedText": text}.
C9_TextFieldIs200 ==
    HasTextField =>
        returned = [statusCode |-> 200,
                    body |-> ReformulatedJson(result.candidates[1].parts[1].text)]

\* C9 amended: an OK generation answer whose first candidate's first part
\* has a non-empty text field is answered 200 with exactly the body
\* {"reformulatedText": text}; an empty text is answered as an invalid
\* response instead.
C9_NonEmptyTextIs200 ==
    (HasTextField /\ result.candidates[1].parts[1].text # "") =>
        returned = [statusCode |-> 200,
                    body |-> ReformulatedJson(result.candidates[1].parts[1].text)]

C9_Witness ==
    /\ HasTextField
    /\ Len(result.candidates) = 2
    /\ result.candidates[1].parts[1].text = "Ahoy, world!"
    /\ returned.statusCode = 200
    /\ returned.body[4] = "Ahoy, world!"

====
